---- MODULE Spec2Model ----
(***************************************************************************)
(* A state-machine model of the weighted tree component                    *)
(* (src/src/viz/WeightedTree.js) and of the measurement utilities it uses  *)
(* (src/src/core/Util.js).                                                 *)
(*                                                                         *)
(* Lengths are integers on a sub-pixel grid: a stored length is            *)
(* SubPx times the length in pixels, a stored zoom scale is Milli times    *)
(* the scale.  JavaScript's real division is floor division on that grid.  *)
(* A JavaScript value that may be a number, NaN, an infinity, null or      *)
(* undefined is a record [t, v]: Num(v), NaN, Inf, NegInf, Null, Undef.    *)
(***************************************************************************)
EXTENDS Integers, Sequences, FiniteSets, TLC

\* ------------------------------------------------------------------ bounds

\* Render passes (calls of updateNode) explored in one behaviour of the
\* render driver, of the toggle driver and of the zoom driver.
MaxPass == 3
MaxTogglePass == 4
MaxZoomPass == 2
MaxNodeZoomPass == 4
MaxStatPass == 2
MaxKeyPass == 2
MaxHoverPass == 2

\* Calls of aggregateNest on one nest.
MaxAggCalls == 2

\* Length of the strings given to createCSSKey.
MaxKeyLen == 3

\* ----------------------------------------------------------------- numbers

SubPx == 2 * 2 * 2
Milli == 10 * 10 * 10

Num(v) == [t |-> "num", v |-> v]
NaN == [t |-> "NaN", v |-> 0]
Inf == [t |-> "Infinity", v |-> 0]
NegInf == [t |-> "-Infinity", v |-> 0]
Null == [t |-> "null", v |-> 0]
Undef == [t |-> "undefined", v |-> 0]

IsNum(a) == a.t = "num"

SetMax(S) == CHOOSE m \in S : \A o \in S : o <= m
SetMin(S) == CHOOSE m \in S : \A o \in S : m <= o
Range(s) == {s[i] : i \in DOMAIN s}

\* -(v * k) + c in JavaScript arithmetic: v and c are lengths, k a scale.
NegTimesPlus(v, k, c) ==
    IF v.t = "NaN" \/ k.t = "NaN" THEN NaN
    ELSE IF k.t = "Infinity"
         THEN IF v.t # "num" THEN NaN
              ELSE IF v.v > 0 THEN NegInf ELSE IF v.v < 0 THEN Inf ELSE NaN
    ELSE IF v.t # "num" THEN NaN
    ELSE Num(c - ((v.v * k.v) \div Milli))

\* ------------------------------------------------------------------- input

\* The data records are named 1..5; a data set is a tree over some of them,
\* given by what the children accessor (scope.children) returns for each.
AllNodes == 1..5
Root == 1
NoKids == [n \in AllNodes |-> <<>>]
DataSets == {1, 2}

\* A third data set is the root alone.
RootOnly == 2 + 1

TreeKids(t) ==
    IF t = 1 THEN [NoKids EXCEPT ![1] = <<2, 3>>, ![2] = <<4>>, ![3] = <<5>>]
    ELSE IF t = RootOnly THEN NoKids
    ELSE [NoKids EXCEPT ![1] = <<3>>, ![3] = <<5>>, ![5] = <<4>>]

RECURSIVE Descendants(_, _)
Descendants(kids, n) ==
    {n} \cup UNION {Descendants(kids, kids[n][i]) : i \in DOMAIN kids[n]}

TreeNodes(t) == Descendants(TreeKids(t), Root)

HasParent(t, n) == \E p \in AllNodes : n \in Range(TreeKids(t)[p])
ParentOf(t, n) == CHOOSE p \in AllNodes : n \in Range(TreeKids(t)[p])

RECURSIVE DepthOf(_, _)
DepthOf(t, n) == IF HasParent(t, n) THEN 1 + DepthOf(t, ParentOf(t, n)) ELSE 0

\* The depths a node can have.
Depths == 1..SetMax({DepthOf(t, n) : t \in DataSets, n \in AllNodes})

\* The nodes of tree t at depth d.
NodesAt(t, d) == {n \in TreeNodes(t) : DepthOf(t, n) = d}

\* The key accessors in use read one of two fields of a record.  The ids
\* count from 0, so the root's id is 0; the codes are all above the ids.
KeyAccessors == {"id", "code"}
RecordKey(n, accessor) == IF accessor = "id" THEN Num(n - 1) ELSE Num(n + Cardinality(AllNodes))

\* scope.key: the key accessor names a record by its name.
Key(n) == n

\* --------------------------------------------------------- Util.js: size

\* A margin side: a percentage string ("5%") or a number.
Pct(v) == [pct |-> TRUE, v |-> v]
Abs(v) == [pct |-> FALSE, v |-> v]
DefaultMargin == [top |-> Pct(5), bottom |-> Pct(5), left |-> Pct(8), right |-> Pct(7)]

\* Variant of util.measure without the clamp at 100 percent.
util_measure_unclamped(m0, m1) ==
    IF m0.pct THEN (2 * m1 * m0.v + 100) \div 200 ELSE m0.v

util_measure(m0, m1) ==
    IF m0.pct
    THEN LET p == IF m0.v < 100 THEN m0.v ELSE 100
         IN  (2 * m1 * p + 100) \div 200
    ELSE m0.v

util_size(margin, width, height) ==
    [width  |-> width - util_measure(margin.left, width) - util_measure(margin.right, width),
     height |-> height - util_measure(margin.top, height) - util_measure(margin.bottom, height),
     top    |-> util_measure(margin.top, height),
     left   |-> util_measure(margin.left, width),
     bottom |-> util_measure(margin.bottom, height),
     right  |-> util_measure(margin.right, width)]

\* ------------------------------------------------------------- tree layout

\* d3.tree over the active tree `kids` (node -> sequence of laid-out
\* children): children are placed left to right, one separation unit from a
\* sibling and two from a cousin at every depth both subtrees reach, and a
\* parent sits midway between its first and last child.  Offsets are in
\* units of 1/SubPx of a separation.
RECURSIVE Tidy(_, _), Place(_, _, _, _)

Push(acc, sub) ==
    LET m == IF Len(acc.rc) < Len(sub.lc) THEN Len(acc.rc) ELSE Len(sub.lc)
    IN  SetMax({acc.rc[j] - sub.lc[j] + (IF j = 1 THEN SubPx ELSE 2 * SubPx) : j \in 1..m})

\* The subtree `sub` placed to the right of the siblings gathered in `acc`.
PlaceOne(acc, sub, first) ==
    LET d == IF first THEN 0 ELSE Push(acc, sub)
        L == IF Len(acc.lc) > Len(sub.lc) THEN Len(acc.lc) ELSE Len(sub.lc)
    IN  [off   |-> [n \in AllNodes |-> IF n \in sub.nodes THEN sub.off[n] + d ELSE acc.off[n]],
         nodes |-> acc.nodes \cup sub.nodes,
         lc    |-> [j \in 1..L |-> IF j <= Len(acc.lc) THEN acc.lc[j] ELSE sub.lc[j] + d],
         rc    |-> [j \in 1..L |-> IF j <= Len(sub.rc) THEN sub.rc[j] + d ELSE acc.rc[j]],
         last  |-> d]

Place(kids, ks, i, acc) ==
    IF i > Len(ks) THEN acc
    ELSE Place(kids, ks, i + 1, PlaceOne(acc, Tidy(kids, ks[i]), i = 1))

\* The parent n over the midpoint of its placed children p.
TidyOver(p, n) ==
    LET mid == p.last \div 2
    IN  [off   |-> [m \in AllNodes |-> IF m \in p.nodes THEN p.off[m] - mid ELSE 0],
         nodes |-> p.nodes \cup {n},
         lc    |-> <<0>> \o [j \in 1..Len(p.lc) |-> p.lc[j] - mid],
         rc    |-> <<0>> \o [j \in 1..Len(p.rc) |-> p.rc[j] - mid]]

Tidy(kids, n) ==
    IF kids[n] = <<>>
    THEN [off |-> [m \in AllNodes |-> 0], nodes |-> {n}, lc |-> <<0>>, rc |-> <<0>>]
    ELSE TidyOver(Place(kids, kids[n], 1,
                    [off |-> [m \in AllNodes |-> 0], nodes |-> {}, lc |-> <<>>, rc |-> <<>>, last |-> 0]),
                  n)

RECURSIVE AbsOff(_, _, _, _)
\* Offsets from the root: the root of the layout is at 0.
AbsOff(kids, n, at, m) ==
    IF m = n THEN at
    ELSE LET t == Tidy(kids, n)
             k == CHOOSE c \in Range(kids[n]) : m \in Descendants(kids, c)
         IN  AbsOff(kids, k, at + t.off[k], m)

RECURSIVE PreOrder(_, _), PreOrderAll(_, _, _)
PreOrderAll(kids, ks, i) ==
    IF i > Len(ks) THEN <<>> ELSE PreOrder(kids, ks[i]) \o PreOrderAll(kids, ks, i + 1)
PreOrder(kids, n) == <<n>> \o PreOrderAll(kids, kids[n], 1)

RECURSIVE ActiveDepth(_, _, _)
ActiveDepth(kids, n, m) ==
    IF m = n THEN 0
    ELSE 1 + ActiveDepth(kids, CHOOSE c \in Range(kids[n]) : m \in Descendants(kids, c), m)

\* tree(hierarchy) after tree.nodeSize([dx, 0]): x = offset * dx, y = 0.
TreeNodeSize(kids, dx) ==
    [n \in Descendants(kids, Root) |->
        [x |-> (AbsOff(kids, Root, 0, n) * dx) \div SubPx, y |-> 0]]

\* The offsets `off` of the nodes, in pre-order `pre`, scaled into the box
\* dx by dy: left and right are the first nodes in pre-order with the least
\* and the greatest offset.
TreeSizeFit(kids, off, pre, dx, dy) ==
    LET ns == DOMAIN off
        lo == SetMin({off[n] : n \in ns})
        hi == SetMax({off[n] : n \in ns})
        left == pre[SetMin({i \in DOMAIN pre : off[pre[i]] = lo})]
        right == pre[SetMin({i \in DOMAIN pre : off[pre[i]] = hi})]
        sameParent == \E p \in ns : left \in Range(kids[p]) /\ right \in Range(kids[p])
        s == IF left = right THEN SubPx ELSE IF sameParent THEN SubPx \div 2 ELSE SubPx
        tx == s - lo
        bottom == SetMax({ActiveDepth(kids, Root, n) : n \in ns})
        ky == dy \div (IF bottom = 0 THEN 1 ELSE bottom)
    IN  [n \in ns |->
            [x |-> ((off[n] + tx) * dx) \div (hi + s + tx),
             y |-> ActiveDepth(kids, Root, n) * ky]]

\* tree(hierarchy) after tree.size([dx, dy]).
TreeSize(kids, dx, dy) ==
    TreeSizeFit(kids, [n \in Descendants(kids, Root) |-> AbsOff(kids, Root, 0, n)],
                PreOrder(kids, Root), dx, dy)


\* ------------------------------------------------------------------- state

VARIABLES
    scope,          \* the component's properties (data, duration, useZoom, ...)
    dataIsDirty,    \* set by a data change, cleared by measure
    refreshNeeded,  \* set by update(true), cleared by measure
    hieararchy,     \* the data set the layout tree was built from, 0 before
    children,       \* LayoutNode.children: "array", "null" or "undefined"
    _children,      \* LayoutNode._children: "array", "null" or "undefined"
    pos,            \* LayoutNode x, y, x0, y0
    size,           \* the result of util.size in the last measure
    nodeSize,       \* tree.nodeSize()[0]; nodeScale.range()[1] is half of it
    depthSpan,      \* horizontal span of one depth
    maxDepth,       \* deepest level of the tree
    elems,          \* the rendered node elements by key, with their transitions
    batchN,         \* endUpdate's counter n of each render pass
    fired,          \* how often each render pass dispatched node_refresh
    passCount,      \* render passes so far
    lastPass,       \* what the last render pass was asked and did
    batchLog,       \* per render pass: node-update transitions issued and ended
    zoomT,          \* d3.zoomTransform(background.node())
    zoomListener,   \* the listener registered for the zoom behaviour's 'zoom'
    onZoomBy,       \* the operations whose transform assignment invoked onZoom
    lastAssign,     \* the operation that assigned the zoom transform last
    recValue,       \* scope.value(record) of each data record
    minValues,      \* minValues[depth]
    maxValues,      \* maxValues[depth]
    raised,         \* the error the last update() raised, or "none"
    vz_tree_id,     \* the vz_tree_id field of each data record
    styles,         \* the style table: per entry OwnEntry or the caller's constant
    fontSize,       \* the label size applyStyles derives from the width
    look,           \* the hover-sensitive styles of each record's circle, link and label
    hovered,        \* the record the pointer is over, or 0
    call            \* a utility function's arguments and, once it has run, its result

vars == <<scope, dataIsDirty, refreshNeeded, hieararchy, children, _children, pos,
          size, nodeSize, depthSpan, maxDepth, elems, batchN, fired, passCount,
          lastPass, batchLog, zoomT, zoomListener, onZoomBy, lastAssign,
          recValue, minValues, maxValues, raised, vz_tree_id,
          styles, fontSize, look, hovered, call>>

treeVars == <<hieararchy, children, _children, pos, size, nodeSize, depthSpan, maxDepth>>
flagVars == <<dataIsDirty, refreshNeeded>>
passVars == <<batchN, fired, passCount, lastPass, batchLog>>
zoomVars == <<zoomT, zoomListener, onZoomBy, lastAssign>>
statVars == <<recValue, minValues, maxValues, raised>>
styleVars == <<styles, fontSize, look, hovered>>

\* The value field of the records as first supplied.
InitialValues == [n \in AllNodes |-> Num(IF n \in {2, 5} THEN 4 ELSE IF n = 4 THEN 1 ELSE 16)]

Identity == [k |-> Num(Milli), x |-> Num(0), y |-> Num(0)]
NoPos == [x |-> Undef, y |-> Undef, x0 |-> Undef, y0 |-> Undef]
NoElem == [in |-> FALSE, stale |-> FALSE, sx |-> Undef, tr |-> <<>>]
\* What a pass that collapses a node found: the active nodes, their plotted
\* positions and the node's children.
NoBefore == [active |-> {}, kids |-> <<>>,
             xy |-> [n \in AllNodes |-> [x |-> Undef, y |-> Undef]]]
NoPass == [kind |-> "none", node |-> 0, asked |-> Undef, duration |-> 0, rebuilt |-> FALSE,
           collapsed |-> FALSE, closing |-> FALSE, targetX |-> Undef, targetY |-> Undef,
           exits |-> {}, before |-> NoBefore,
           prev |-> [kind |-> "none", node |-> 0, closing |-> FALSE]]
\* An entry of the style table that the caller has not overridden.
OwnEntry == [t |-> "own", v |-> 0]

\* The styles of an element that is not in the document, and of one that was
\* appended and not styled yet.  Opacities are in percent, sizes in SubPx.
NoLook == [fillOpacity |-> Undef, strokeOpacity |-> Undef, fontSize |-> Undef,
           fontWeight |-> "unset"]
NoLog == [issued |-> 0, ended |-> 0, pendingAtFire |-> 0]

\* The component after construction.
Constructed ==
    /\ scope = [data |-> 0, duration |-> 500, useZoom |-> TRUE, useZoomToNode |-> TRUE,
                width |-> 600, height |-> 600, margin |-> DefaultMargin, key |-> "id"]
    /\ dataIsDirty = TRUE
    /\ refreshNeeded = FALSE
    /\ hieararchy = 0
    /\ children = [n \in AllNodes |-> "undefined"]
    /\ _children = [n \in AllNodes |-> "undefined"]
    /\ pos = [n \in AllNodes |-> NoPos]
    /\ size = [width |-> 0, height |-> 0, top |-> 0, left |-> 0, bottom |-> 0, right |-> 0]
    /\ nodeSize = 0
    /\ depthSpan = 0
    /\ maxDepth = 0
    /\ elems = [i \in AllNodes |-> NoElem]
    /\ batchN = <<>>
    /\ fired = <<>>
    /\ passCount = 0
    /\ lastPass = NoPass
    /\ batchLog = <<>>
    /\ zoomT = Identity
    /\ zoomListener = "onZoom"
    /\ onZoomBy = {}
    /\ lastAssign = "none"
    /\ recValue = InitialValues
    /\ minValues = [d \in Depths |-> Undef]
    /\ maxValues = [d \in Depths |-> Undef]
    /\ raised = "none"
    /\ vz_tree_id = [n \in AllNodes |-> Undef]
    /\ styles = [n \in {"node-fill-opacity", "link-stroke-opacity", "font-size"} |-> OwnEntry]
    /\ fontSize = SubPx * 12
    /\ look = [n \in AllNodes |-> NoLook]
    /\ hovered = 0

\* No utility call is under way.
NoCall == [fn |-> "none"]

Init == Constructed /\ call = NoCall


\* ------------------------------------------------------------ layout tree

\* The children d3.hierarchy and d3.tree walk: those of expanded nodes.
ActiveKids(h, ch) ==
    [n \in AllNodes |-> IF ch[n] = "array" THEN TreeKids(h)[n] ELSE <<>>]

\* tree(hieararchy).descendants()
Active(h, ch) == Descendants(ActiveKids(h, ch), Root)

ActiveNodes == IF hieararchy = 0 THEN {} ELSE Active(hieararchy, children)

Rendered == {i \in AllNodes : elems[i].in}

cx(sz) == SubPx * sz.left
cy(sz) == SubPx * sz.top + (SubPx * sz.height) \div 2

\* refreshData: d3.hierarchy builds new layout nodes, every node with
\* children expanded, and tree() (in tree.size mode) lays all of them out.
refreshData_node(at) == [x |-> Num(at.x), y |-> Num(at.y), x0 |-> Undef, y0 |-> Undef]

refreshData(data, sz) ==
    LET lay == TreeSize(TreeKids(data), SubPx * sz.width, SubPx * sz.height)
    IN  [children  |-> [n \in AllNodes |->
                          IF n \in TreeNodes(data) /\ TreeKids(data)[n] # <<>>
                          THEN "array" ELSE "undefined"],
         _children |-> [n \in AllNodes |-> "undefined"],
         pos       |-> [n \in AllNodes |->
                          IF n \in TreeNodes(data) THEN refreshData_node(lay[n]) ELSE NoPos],
         maxDepth  |-> SetMax({DepthOf(data, n) : n \in TreeNodes(data)})]

\* ------------------------------------------------------------- depth stats

\* A value that an if() takes for false.
Falsy(v) == v.t \in {"undefined", "null", "NaN"} \/ v = Num(0)

\* d3.max and d3.min skip what is not a number, and are undefined when
\* nothing is left.
d3_max(S) ==
    IF \E v \in S : IsNum(v) THEN Num(SetMax({v.v : v \in {w \in S : IsNum(w)}})) ELSE Undef

d3_min(S) ==
    IF \E v \in S : IsNum(v) THEN Num(SetMin({v.v : v \in {w \in S : IsNum(w)}})) ELSE Undef

\* refreshData: a depth of the new tree whose maxValues entry is falsy gets
\* the entry `seed` (-Infinity in maxValues, Infinity in minValues).
refreshData_stats(data, mx, mv, seed) ==
    [d \in Depths |-> IF NodesAt(data, d) # {} /\ Falsy(mx[d]) THEN seed ELSE mv[d]]

d3_extent(S, which) == IF which = "max" THEN d3_max(S) ELSE d3_min(S)

\* Variant of the loop of measure that clears the entries past maxDepth.
measure_stats_reset(h, vals, md, mv, which) ==
    [d \in Depths |->
        IF d <= md THEN d3_extent({vals[n] : n \in NodesAt(h, d)}, which) ELSE Undef]

\* measure: for the depths 1..maxDepth the entry becomes the d3.max (d3.min)
\* of the value over `nodes`, all the nodes refreshData laid out at that
\* depth; the entries of deeper depths stay.
measure_stats(h, vals, md, mv, which) ==
    [d \in Depths |->
        IF d <= md THEN d3_extent({vals[n] : n \in NodesAt(h, d)}, which) ELSE mv[d]]

\* The entry measure would compute for depth d from the tree and the values
\* as they are.
FreshStats(h, vals, which, d) == d3_extent({vals[n] : n \in NodesAt(h, d)}, which)

\* d3.scaleSqrt over the values in use, which are squares.
Sqrt(v) == CHOOSE q \in 0..v : q * q = v

\* nodeScale.range()[0], 1.5 pixels.
Range0 == (SubPx * 3) \div 2

\* What a d3 continuous scale returns on a domain of one point: the start of
\* its range in d3-scale before 2.2, the middle of it from 2.2 on.
D3Degenerate == {"start", "middle"}

\* nodeScale(v) on the domain [lo, hi] and the range [1.5, ns / 2]: not
\* clamped, NaN when any of the three is not a number.
nodeScale(v, lo, hi, ns, mode) ==
    IF ~(IsNum(v) /\ IsNum(lo) /\ IsNum(hi)) THEN NaN
    ELSE IF lo.v = hi.v
    THEN Num(IF mode = "start" THEN Range0 ELSE Range0 + (ns \div 2 - Range0) \div 2)
    ELSE Num(Range0 + ((Sqrt(v.v) - Sqrt(lo.v)) * (ns \div 2 - Range0))
                          \div (Sqrt(hi.v) - Sqrt(lo.v)))

\* return isNaN(r) ? 0 : r
nodeRadius_result(r) == IF r.t = "NaN" THEN Num(0) ELSE r

\* nodeRadius(node) for a node at `depth` with value v.
nodeRadius(depth, v, mn, mx, ns, mode) ==
    IF depth = 0 THEN nodeRadius_result(Num((ns \div 2) \div 2))
    ELSE nodeRadius_result(nodeScale(v, mn[depth], mx[depth], ns, mode))

\* collapse(d) of measure: children move to _children, recursively.
RECURSIVE collapse(_, _, _), collapseEach(_, _, _, _)

\* Variant of collapse that leaves the node's descendants as they are.
collapse_shallow(h, st, d) ==
    IF st.children[d] = "array"
    THEN [st EXCEPT !._children[d] = st.children[d], !.children[d] = "null"]
    ELSE st

\* Variant of collapse that copies the children without clearing them.
collapse_copy(h, st, d) ==
    IF st.children[d] = "array"
    THEN collapseEach(h, [st EXCEPT !._children[d] = st.children[d]], TreeKids(h)[d], 1)
    ELSE st

collapseEach(h, st, ks, i) ==
    IF i > Len(ks) THEN st ELSE collapseEach(h, collapse(h, st, ks[i]), ks, i + 1)
collapse(h, st, d) ==
    IF st.children[d] = "array"
    THEN LET moved == [st EXCEPT !._children[d] = st.children[d], !.children[d] = "null"]
         IN  collapseEach(h, moved, TreeKids(h)[d], 1)
    ELSE st

\* Variant of the collapse step that never collapses.
collapseBelowRoot_never(h, st, dirty) == st

\* if (dataIsDirty == true) hieararchy.children.forEach(collapse)
collapseBelowRoot(h, st, dirty) ==
    IF dirty THEN collapseEach(h, st, TreeKids(h)[Root], 1) ELSE st

\* if (!duration) duration = scope.duration: `asked` is Undef when updateNode
\* is called with one argument.
updateNode_duration(asked, configured) ==
    IF asked.t = "undefined" \/ (asked.t = "num" /\ asked.v = 0) THEN configured
    ELSE asked.v

\* updateTreeSize: min d.y is 0 after tree.nodeSize([.., 0]), and 0 times a
\* scale that is no finite number is NaN.
updateTreeSize_offsetY(sz, ns, useZoom, k) ==
    IF useZoom /\ ~IsNum(k) THEN NaN
    ELSE LET above == 0 - (SubPx * sz.height) \div 2
         IN  Num((IF above > 0 THEN above ELSE 0) + ns \div 2)

\* The positions tree() and updateTreeSize give the active nodes.
updateTreeSize(h, ch, p, sz, ns, ds, useZoom, k) ==
    LET lay == TreeNodeSize(ActiveKids(h, ch), ns)
        offsetY == updateTreeSize_offsetY(sz, ns, useZoom, k)
    IN  [n \in AllNodes |->
            IF n \in Active(h, ch)
            THEN [p[n] EXCEPT
                    !.y = Num(DepthOf(h, n) * ds + cx(sz)),
                    !.x = IF IsNum(offsetY) THEN Num(lay[n].x + offsetY.v + cy(sz) - ns) ELSE NaN]
            ELSE p[n]]

\* Stash the old positions for transition.
stash(h, ch, p) ==
    [n \in AllNodes |->
        IF n \in Active(h, ch) THEN [p[n] EXCEPT !.x0 = p[n].x, !.y0 = p[n].y] ELSE p[n]]

\* The data join of updateNode by key: entering elements are appended,
\* exiting ones get a transition that removes them at its end, and the
\* merged entering and updating ones get the node-update transition.
join(h, ch, el, pass) ==
    LET act == {Key(n) : n \in Active(h, ch)}
    IN  [i \in AllNodes |->
            IF i \in act
            THEN [in |-> TRUE, stale |-> FALSE, sx |-> Undef,
                  tr |-> (IF el[i].in THEN el[i].tr ELSE <<>>)
                         \o <<[b |-> pass, kind |-> "update", st |-> "scheduled"]>>]
            ELSE IF el[i].in
            THEN [el[i] EXCEPT !.tr = @ \o <<[b |-> pass, kind |-> "exit", st |-> "scheduled"]>>]
            ELSE el[i]]

\* The key function of the data join:
\* d.data.vz_tree_id || (d.data.vz_tree_id = scope.key(d.data))
join_key(id, n, accessor) == IF Falsy(id) THEN RecordKey(n, accessor) ELSE id

\* The join calls the key function on the datum of every element there is
\* and on every node of the new layout.
join_ids(h, ch, el, ids, accessor) ==
    [n \in AllNodes |->
        IF el[n].in \/ n \in Active(h, ch) THEN join_key(ids[n], n, accessor) ELSE ids[n]]

\* ------------------------------------------------------------------ styles

\* viz.getStyle(name): the caller's constant where the entry was overridden,
\* else what the component's own table gives.  Its node-fill-opacity is 0.4
\* unless the value accessor, applied to the layout node, is <= 0; it has no
\* entry named link-stroke-opacity (its entry is spelt link-stroke_opacity);
\* its font-size is fontSize + 'px'.
getStyle(name, table, fs) ==
    IF table[name] # OwnEntry THEN table[name]
    ELSE IF name = "node-fill-opacity" THEN Num(40)
    ELSE IF name = "font-size" THEN Num(fs)
    ELSE Undef

\* applyStyles: fontSize = Math.max(8, Math.round(viz.width() / 75))
applyStyles_fontSize(width) ==
    SubPx * (IF (2 * width + 75) \div 150 > 8 THEN (2 * width + 75) \div 150 ELSE 8)

\* applyStyles on the elements in the document: circles, labels and links
\* (the root has no link) get the style table's values; the font weight is
\* not touched.
applyStyles(el, lk, table, fs) ==
    [n \in AllNodes |->
        IF el[n].in
        THEN [lk[n] EXCEPT
                !.fillOpacity = getStyle("node-fill-opacity", table, fs),
                !.fontSize = getStyle("font-size", table, fs),
                !.strokeOpacity = IF n = Root THEN Undef
                                  ELSE getStyle("link-stroke-opacity", table, fs)]
        ELSE NoLook]

\* styles_onMouseOver(d): the emphasis on d's circle, link and label.
styles_onMouseOver(lk, d, fs) ==
    [lk EXCEPT ![d] = [fillOpacity |-> Num(90),
                       strokeOpacity |-> IF d = Root THEN Undef ELSE Num(80),
                       fontSize |-> Num((fs * 5) \div 4),
                       fontWeight |-> "bold"]]

\* styles_onMouseOut: every circle and link gets the style table's opacity,
\* every label the size fontSize and the weight normal.
styles_onMouseOut(el, lk, table, fs) ==
    [n \in AllNodes |->
        IF el[n].in
        THEN [fillOpacity |-> getStyle("node-fill-opacity", table, fs),
              strokeOpacity |-> IF n = Root THEN Undef
                                ELSE getStyle("link-stroke-opacity", table, fs),
              fontSize |-> Num(fs),
              fontWeight |-> "normal"]
        ELSE lk[n]]

\* endUpdate: .each(function () { ++n })
endUpdate_count(h, ch) == Cardinality(Active(h, ch))

\* updateNode(rootNode, duration) on the layout tree (h, ch).  rootNode is 0
\* for the data root update() passes, which has x0 = y0 = 0 and no x, y.
updateNode(kind, rootNode, asked, h, ch, p, el, sz, ns, ds, rebuilt, collapsed, closing) ==
    \E laid \in {updateTreeSize(h, ch, p, sz, ns, ds, scope.useZoom, zoomT.k)} :
    LET pass == passCount + 1
    IN  /\ pos' = stash(h, ch, laid)
        /\ elems' = join(h, ch, el, pass)
        /\ vz_tree_id' = join_ids(h, ch, el, vz_tree_id, scope.key)
        /\ fontSize' = applyStyles_fontSize(scope.width)
        /\ look' = applyStyles(elems', look, styles, applyStyles_fontSize(scope.width))
        /\ UNCHANGED <<styles, hovered>>
        /\ batchN' = Append(batchN, endUpdate_count(h, ch))
        /\ fired' = Append(fired, 0)
        /\ passCount' = pass
        /\ batchLog' = Append(batchLog, [NoLog EXCEPT !.issued = endUpdate_count(h, ch)])
        /\ lastPass' = [kind |-> kind, node |-> rootNode, asked |-> asked,
                        duration |-> updateNode_duration(asked, scope.duration),
                        rebuilt |-> rebuilt, collapsed |-> collapsed, closing |-> closing,
                        before |-> IF closing
                                   THEN [active |-> Active(h, children),
                                         kids |-> ActiveKids(h, children)[rootNode],
                                         xy |-> [n \in AllNodes |-> [x |-> p[n].x, y |-> p[n].y]]]
                                   ELSE NoBefore,
                        targetX |-> IF rootNode = 0 THEN Undef ELSE laid[rootNode].x,
                        targetY |-> IF rootNode = 0 THEN Undef ELSE laid[rootNode].y,
                        exits |-> {i \in AllNodes : el[i].in /\ i \notin Active(h, ch)},
                        prev |-> [kind |-> lastPass.kind, node |-> lastPass.node,
                                  closing |-> lastPass.closing]]

\* --------------------------------------------------------------- zoom/pan

\* The plot's transform attribute, like the svg's size and the scroll
\* position, is output that nothing reads back: it is not part of the state.
ZoomState == [zoomT |-> zoomT, zoomListener |-> zoomListener, onZoomBy |-> onZoomBy,
              lastAssign |-> lastAssign]

SetZoomState(Z) ==
    /\ zoomT' = Z.zoomT
    /\ zoomListener' = Z.zoomListener
    /\ onZoomBy' = Z.onZoomBy
    /\ lastAssign' = Z.lastAssign

\* Variant of zoom.on that leaves the registered listener in place.
zoom_on_ignored(Z, listener) == Z

\* Variant of zoom.transform that assigns without emitting 'zoom'.
zoom_transform_silent(Z, t, cause, useZoom) == [Z EXCEPT !.zoomT = t, !.lastAssign = cause]

\* onZoom, invoked with d3.event.transform = t because of `cause`; with
\* useZoom on it transforms the plot and dispatches 'zoom'.
onZoom(Z, t, cause, useZoom) == [Z EXCEPT !.onZoomBy = @ \cup {cause}]

\* background.call(zoom.transform, t), or a gesture: the transform is
\* assigned and the 'zoom' event goes to the listener registered just then.
zoom_transform(Z, t, cause, useZoom) ==
    LET assigned == [Z EXCEPT !.zoomT = t, !.lastAssign = cause]
    IN  IF Z.zoomListener = "onZoom" THEN onZoom(assigned, t, cause, useZoom) ELSE assigned

\* zoom.on('zoom', null) and zoom.on('zoom', onZoom)
zoom_on(Z, listener) == [Z EXCEPT !.zoomListener = listener]

\* Variant of zoomToNode that returns without assigning a transform.
zoomToNode_skip(Z, d, sz, useZoom, useZoomToNode) == Z

zoomToNode(Z, d, sz, useZoom, useZoomToNode) ==
    IF useZoom /\ useZoomToNode
    THEN LET scale == Z.zoomT.k
             t == [k |-> scale,
                   x |-> NegTimesPlus(d.y, scale, (SubPx * sz.width) \div 4),
                   y |-> NegTimesPlus(d.x, scale, (SubPx * sz.height) \div 2)]
             disabled == zoom_on(Z, "null")
             applied == zoom_transform(disabled, t, "zoomToNode", useZoom)
         IN  zoom_on(applied, "onZoom")
    ELSE Z

\* Variant of resetZoom that leaves the transform alone.
resetZoom_skip(Z, useZoom) == Z

resetZoom(Z, useZoom) ==
    IF useZoom
    THEN LET disabled == zoom_on(Z, "null")
             applied == zoom_transform(disabled, Identity, "resetZoom", useZoom)
         IN  zoom_on(applied, "onZoom")
    ELSE Z


\* The x of the datum bound to a rendered element.
DatumX(i) == IF elems[i].stale THEN elems[i].sx ELSE pos[i].x

\* scaleToHeight's transform: the extent of d.x over the rendered elements
\* fitted into the height left over by the largest radius.
scaleToHeight_transform(xs, sz, ns) ==
    LET range1 == ns \div 2
        h == SubPx * sz.height - range1
    IN  IF \E v \in xs : ~IsNum(v) THEN [k |-> NaN, x |-> Num(0), y |-> NaN]
        ELSE LET minX == SetMin({v.v : v \in xs})
                 maxX == SetMax({v.v : v \in xs})
                 scale == IF maxX = minX THEN (IF h > 0 THEN Inf ELSE NaN)
                          ELSE Num((h * Milli) \div (maxX - minX))
             IN  [k |-> scale, x |-> Num(0), y |-> NegTimesPlus(Num(minX), scale, range1)]

\* ---------------------------------------------------------------- actions

\* viz.data(t): the property is set and data_change runs onDataChanged.
SetData(t) ==
    /\ scope' = [scope EXCEPT !.data = t]
    /\ dataIsDirty' = TRUE
    /\ UNCHANGED <<refreshNeeded, treeVars, elems, passVars, zoomVars, statVars, vz_tree_id, styleVars, call>>

\* viz.duration(v)
SetDuration(v) ==
    /\ scope' = [scope EXCEPT !.duration = v]
    /\ UNCHANGED <<flagVars, treeVars, elems, passVars, zoomVars, statVars, vz_tree_id, styleVars, call>>

\* viz.key(accessor)
SetKey(accessor) ==
    /\ accessor # scope.key
    /\ scope' = [scope EXCEPT !.key = accessor]
    /\ UNCHANGED <<flagVars, treeVars, elems, passVars, zoomVars, statVars, vz_tree_id, styleVars, call>>

\* viz.useZoom(b)
SetUseZoom(b) ==
    /\ scope' = [scope EXCEPT !.useZoom = b]
    /\ UNCHANGED <<flagVars, treeVars, elems, passVars, zoomVars, statVars, vz_tree_id, styleVars, call>>

\* viz.useZoomToNode(b)
SetUseZoomToNode(b) ==
    /\ scope' = [scope EXCEPT !.useZoomToNode = b]
    /\ UNCHANGED <<flagVars, treeVars, elems, passVars, zoomVars, statVars, vz_tree_id, styleVars, call>>

\* viz.width(w) with a new value: width_change runs resetZoom.
SetWidth(w) ==
    /\ w # scope.width
    /\ scope' = [scope EXCEPT !.width = w]
    /\ SetZoomState(resetZoom(ZoomState, scope.useZoom))
    /\ UNCHANGED <<flagVars, treeVars, elems, passVars, statVars, vz_tree_id, styleVars, call>>

\* viz.height(h) with a new value: height_change runs resetZoom.
SetHeight(h) ==
    /\ h # scope.height
    /\ scope' = [scope EXCEPT !.height = h]
    /\ SetZoomState(resetZoom(ZoomState, scope.useZoom))
    /\ UNCHANGED <<flagVars, treeVars, elems, passVars, statVars, vz_tree_id, styleVars, call>>

\* The elements whose datum is a node of a layout tree that was replaced.
staleAll(el, p) ==
    [i \in AllNodes |->
        IF el[i].in /\ ~el[i].stale THEN [el[i] EXCEPT !.stale = TRUE, !.sx = p[i].x]
        ELSE el[i]]

\* measure on new data whose root has no children: refreshData has run when
\* hieararchy.children.forEach raises a TypeError, and neither the flags nor
\* anything after that line is reached.
measure_raises(refresh, sz) ==
    \E built \in {refreshData(scope.data, sz)} :
       /\ size' = sz
       /\ hieararchy' = scope.data
       /\ children' = built.children
       /\ _children' = built._children
       /\ pos' = built.pos
       /\ maxDepth' = built.maxDepth
       /\ elems' = staleAll(elems, pos)
       /\ refreshNeeded' = (refreshNeeded \/ refresh)
       /\ minValues' = refreshData_stats(scope.data, maxValues, minValues, Inf)
       /\ maxValues' = refreshData_stats(scope.data, maxValues, maxValues, NegInf)
       /\ raised' = "TypeError"
       /\ UNCHANGED <<dataIsDirty, nodeSize, depthSpan, passVars, recValue, vz_tree_id, styleVars>>

\* Variant of measure's test that refreshes on new data only.
measure_refresh_dirty(dirty, needed) == dirty

\* Variant of measure's test that refreshes at every call.
measure_refresh_always(dirty, needed) == TRUE

\* measure: if (dataIsDirty == true || refreshNeeded)
measure_refresh(dirty, needed) == dirty \/ needed

\* measure that runs to its end, then updateNode(root).
measure_render(refresh, sz) ==
    \E rebuild \in {measure_refresh(dataIsDirty, refreshNeeded \/ refresh)} :
       \E built \in {IF rebuild
                     THEN collapseBelowRoot(scope.data, refreshData(scope.data, sz), dataIsDirty)
                     ELSE [children |-> children, _children |-> _children,
                           pos |-> pos, maxDepth |-> maxDepth]},
          h \in {IF rebuild THEN scope.data ELSE hieararchy} :
       \E mn \in {measure_stats(h, recValue, built.maxDepth,
                                IF rebuild
                                THEN refreshData_stats(scope.data, maxValues, minValues, Inf)
                                ELSE minValues, "min")},
          mx \in {measure_stats(h, recValue, built.maxDepth,
                                IF rebuild
                                THEN refreshData_stats(scope.data, maxValues, maxValues, NegInf)
                                ELSE maxValues, "max")} :
       LET scale == (SubPx * sz.height) \div Len(TreeKids(scope.data)[Root])
           ds == (SubPx * sz.width) \div (built.maxDepth + 1)
           el == IF rebuild THEN staleAll(elems, pos) ELSE elems
       IN  /\ size' = sz
           /\ hieararchy' = h
           /\ children' = built.children
           /\ _children' = built._children
           /\ maxDepth' = built.maxDepth
           /\ nodeSize' = scale
           /\ depthSpan' = ds
           /\ dataIsDirty' = FALSE
           /\ refreshNeeded' = FALSE
           /\ minValues' = mn
           /\ maxValues' = mx
           /\ raised' = "none"
           /\ updateNode("update", 0, Undef, h, built.children, built.pos, el, sz, scale, ds,
                         rebuild, rebuild /\ dataIsDirty, FALSE)
           /\ UNCHANGED recValue

\* viz.update(refresh): measure, then updateNode(root).
Update(refresh) ==
    /\ scope.data # 0
    /\ \E sz \in {util_size(scope.margin, scope.width, scope.height)} :
          IF dataIsDirty /\ TreeKids(scope.data)[Root] = <<>>
          THEN measure_raises(refresh, sz)
          ELSE measure_render(refresh, sz)
    /\ UNCHANGED <<scope, zoomVars, call>>

\* Variant of the swap that drops the children of the node it closes.
toggleNode_swap_lossy(ch, cch, d) ==
    IF ch[d] = "array"
    THEN [children |-> [ch EXCEPT ![d] = "null"], _children |-> [cch EXCEPT ![d] = "null"]]
    ELSE [children |-> [ch EXCEPT ![d] = cch[d]], _children |-> [cch EXCEPT ![d] = "null"]]

\* Variant of the swap that, closing a node, also closes every expanded node
\* below it.
toggleNode_swap_deep(ch, cch, d) ==
    IF ch[d] = "array"
    THEN LET below == {n \in Descendants(TreeKids(hieararchy), d) : ch[n] = "array"}
         IN  [children |-> [n \in AllNodes |-> IF n \in below THEN "null" ELSE ch[n]],
              _children |-> [n \in AllNodes |-> IF n \in below THEN ch[n] ELSE cch[n]]]
    ELSE [children |-> [ch EXCEPT ![d] = cch[d]], _children |-> [cch EXCEPT ![d] = "null"]]

\* Variant of the swap that copies the one field to the other and clears
\* neither.
toggleNode_swap_copy(ch, cch, d) ==
    IF ch[d] = "array"
    THEN [children |-> ch, _children |-> [cch EXCEPT ![d] = ch[d]]]
    ELSE [children |-> [ch EXCEPT ![d] = cch[d]], _children |-> cch]

\* The two branches of toggleNode up to their call of updateNode.
toggleNode_swap(ch, cch, d) ==
    IF ch[d] = "array"
    THEN [children |-> [ch EXCEPT ![d] = "null"], _children |-> [cch EXCEPT ![d] = ch[d]]]
    ELSE [children |-> [ch EXCEPT ![d] = cch[d]], _children |-> [cch EXCEPT ![d] = "null"]]

\* toggleNode(d), d a node of the layout tree (a click on its element, or
\* viz.toggleNode).
toggleNode(d) ==
    /\ hieararchy # 0
    /\ raised = "none"
    /\ d \in TreeNodes(hieararchy)
    /\ LET closing == children[d] = "array"
           swapped == toggleNode_swap(children, _children, d)
           ch == swapped.children
           cch == swapped._children
       IN  /\ children' = ch
           /\ _children' = cch
           /\ updateNode("toggle", d, Num(0), hieararchy, ch, pos, elems, size, nodeSize,
                         depthSpan, FALSE, FALSE, closing)
           /\ IF closing
              THEN IF HasParent(hieararchy, d)
                   THEN SetZoomState(zoomToNode(ZoomState, pos'[ParentOf(hieararchy, d)], size,
                                                scope.useZoom, scope.useZoomToNode))
                   ELSE UNCHANGED zoomVars
              ELSE IF ch[d] = "array"
                   THEN SetZoomState(zoomToNode(ZoomState, pos'[d], size,
                                                scope.useZoom, scope.useZoomToNode))
                   ELSE UNCHANGED zoomVars
    /\ UNCHANGED <<scope, flagVars, hieararchy, size, nodeSize, depthSpan, maxDepth, statVars, call>>

\* A record's value field is assigned in place: no setter of the component
\* runs, and no flag is raised.
MutateValue(n, v) ==
    /\ scope.data # 0
    /\ n \in TreeNodes(scope.data)
    /\ v # recValue[n]
    /\ recValue' = [recValue EXCEPT ![n] = v]
    /\ UNCHANGED <<scope, flagVars, treeVars, elems, passVars, zoomVars,
                   minValues, maxValues, raised, vz_tree_id, styleVars, call>>

\* viz.style(name, value): the caller overrides an entry of the style table,
\* or clears the override.
SetStyle(name, value) ==
    /\ styles[name] # value
    /\ styles' = [styles EXCEPT ![name] = value]
    /\ UNCHANGED <<scope, flagVars, treeVars, elems, passVars, zoomVars, statVars, vz_tree_id,
                   fontSize, look, hovered, call>>

\* The pointer enters the element of record d: 'mouseover' is dispatched.
\* The label's transition is taken at its end value; a later transition of
\* the same label supersedes it.
MouseOver(d) ==
    /\ hovered = 0
    /\ elems[d].in
    /\ hovered' = d
    /\ look' = styles_onMouseOver(look, d, fontSize)
    /\ UNCHANGED <<scope, flagVars, treeVars, elems, passVars, zoomVars, statVars, vz_tree_id,
                   styles, fontSize, call>>

\* The pointer leaves the element of record d: 'mouseout' is dispatched.
MouseOut(d) ==
    /\ hovered = d
    /\ elems[d].in
    /\ hovered' = 0
    /\ look' = styles_onMouseOut(elems, look, styles, fontSize)
    /\ UNCHANGED <<scope, flagVars, treeVars, elems, passVars, zoomVars, statVars, vz_tree_id,
                   styles, fontSize, call>>

\* viz.scaleToHeight(), once measure has set size.
scaleToHeight ==
    /\ hieararchy # 0
    /\ Rendered # {}
    /\ LET t == scaleToHeight_transform({DatumX(i) : i \in Rendered}, size, nodeSize)
       IN  SetZoomState(zoom_transform(ZoomState, t, "scaleToHeight", scope.useZoom))
    /\ UNCHANGED <<scope, flagVars, treeVars, elems, passVars, statVars, vz_tree_id, styleVars, call>>

\* A wheel or drag gesture on the background that ends at transform t.
Gesture(t) ==
    /\ SetZoomState(zoom_transform(ZoomState, t, "gesture", scope.useZoom))
    /\ UNCHANGED <<scope, flagVars, treeVars, elems, passVars, statVars, vz_tree_id, styleVars, call>>

\* d3-timer runs every due timer in one flush, and the transitions a render
\* pass creates share their creation time, delay and duration: they start in
\* one flush and end in one flush, between which no handler runs.

HasTransition(el, b, st) == \E j \in DOMAIN el.tr : el.tr[j].b = b /\ el.tr[j].st = st
IndexOf(el, b) == CHOOSE j \in DOMAIN el.tr : el.tr[j].b = b

\* A starting transition ends the older transitions of its element: the
\* running one is interrupted, the ones not yet started are cancelled.
schedule_start(tr, j) == <<[tr[j] EXCEPT !.st = "running"]>> \o SubSeq(tr, j + 1, Len(tr))

\* The transitions of render pass b start.  An exit transition evaluates its
\* transform callback, which clears x0 and y0 of the element's datum.
TransitionStart(b) ==
    /\ \E i \in AllNodes : elems[i].in /\ HasTransition(elems[i], b, "scheduled")
    /\ \A i \in AllNodes : \A j \in DOMAIN elems[i].tr :
          elems[i].tr[j].b < b => elems[i].tr[j].st = "running"
    /\ LET starts(i) == elems[i].in /\ HasTransition(elems[i], b, "scheduled")
       IN  /\ elems' = [i \in AllNodes |->
                          IF starts(i)
                          THEN [elems[i] EXCEPT !.tr = schedule_start(@, IndexOf(elems[i], b))]
                          ELSE elems[i]]
           /\ pos' = [i \in AllNodes |->
                        IF starts(i) /\ elems[i].tr[IndexOf(elems[i], b)].kind = "exit"
                           /\ ~elems[i].stale
                        THEN [pos[i] EXCEPT !.x0 = Null, !.y0 = Null]
                        ELSE pos[i]]
    /\ UNCHANGED <<scope, flagVars, hieararchy, children, _children, size, nodeSize,
                   depthSpan, maxDepth, passVars, zoomVars, statVars, vz_tree_id, styleVars, call>>

\* Variant of endUpdate's listener that calls back at every end.
endUpdate_fires_each(n) == TRUE

\* endUpdate: .on('end', function () { if (!--n) callback() })
endUpdate_fires(n) == n - 1 = 0

\* Variant of transition.remove() that never removes.
remove_never(rest) == FALSE

\* transition.remove(): the element is removed at the end of the
\* transition unless another transition is scheduled on it.
remove_applies(rest) == rest = <<>>

\* The running transitions of render pass b reach their end: each node-update
\* transition runs endUpdate's listener, each exit transition its removal.
TransitionEnd(b) ==
    /\ \E i \in AllNodes : elems[i].in /\ HasTransition(elems[i], b, "running")
    /\ LET ends(i) == elems[i].in /\ HasTransition(elems[i], b, "running")
           updates == {i \in AllNodes : ends(i) /\ elems[i].tr[1].kind = "update"}
           k == Cardinality(updates)
           \* the listener runs once per ending transition, one after the other
           firing == {j \in 1..k : endUpdate_fires(batchN[b] - (j - 1))}
       IN  /\ elems' = [i \in AllNodes |->
                          IF ~ends(i) THEN elems[i]
                          ELSE IF elems[i].tr[1].kind = "exit" /\ remove_applies(Tail(elems[i].tr))
                          THEN NoElem
                          ELSE [elems[i] EXCEPT !.tr = Tail(@)]]
           /\ batchN' = [batchN EXCEPT ![b] = @ - k]
           /\ fired' = [fired EXCEPT ![b] = @ + Cardinality(firing)]
           /\ batchLog' = [batchLog EXCEPT
                  ![b].ended = @ + k,
                  ![b].pendingAtFire =
                      SetMax({@} \cup {batchLog[b].issued - (batchLog[b].ended + j) : j \in firing})]
    /\ look' = [i \in AllNodes |-> IF elems'[i].in THEN look[i] ELSE NoLook]
    /\ UNCHANGED <<scope, flagVars, treeVars, passCount, lastPass, zoomVars, statVars, vz_tree_id,
                   styles, fontSize, hovered, call>>

\* ----------------------------------------------------------- specification

Durations == {0, 500}
Widths == {600, 400}
Heights == {600, 300}
GestureTransforms == {[k |-> Num(2 * Milli), x |-> Num(0), y |-> Num(0)]}

\* The render driver: data changes, render passes, toggles and the flushes
\* of their transitions.
Next ==
    \/ \E t \in DataSets : SetData(t)
    \/ \E v \in Durations : SetDuration(v)
    \/ passCount < MaxPass /\ \E refresh \in BOOLEAN : Update(refresh)
    \/ passCount < MaxPass /\ \E d \in AllNodes : toggleNode(d)
    \/ \E b \in 1..passCount : TransitionStart(b)
    \/ \E b \in 1..passCount : TransitionEnd(b)

Spec == Init /\ [][Next]_vars

\* d3-timer calls every timer that is due: the scheduled transitions of a
\* pass start and the running ones end.
SpecFair ==
    Spec /\ \A b \in 1..MaxPass : WF_vars(TransitionStart(b)) /\ WF_vars(TransitionEnd(b))

\* The toggle driver: longer runs of render passes over the first data set,
\* with the configured duration left as constructed.
NextToggle ==
    \/ \E t \in {1} : SetData(t)
    \/ passCount < MaxTogglePass /\ \E refresh \in BOOLEAN : Update(refresh)
    \/ passCount < MaxTogglePass /\ \E d \in AllNodes : toggleNode(d)
    \/ \E b \in 1..passCount : TransitionStart(b)
    \/ \E b \in 1..passCount : TransitionEnd(b)

SpecToggle == Init /\ [][NextToggle]_vars

\* Zoom and pan: gestures, the programmatic zoom operations and the
\* properties that guard them, over render passes of the first data set.
NextZoom ==
    \/ \E t \in {1} : SetData(t)
    \/ passCount < MaxZoomPass /\ \E refresh \in BOOLEAN : Update(refresh)
    \/ passCount < MaxZoomPass /\ \E d \in AllNodes : toggleNode(d)
    \/ \E b \in 1..passCount : TransitionStart(b)
    \/ \E b \in 1..passCount : TransitionEnd(b)
    \/ \E b \in BOOLEAN : SetUseZoom(b)
    \/ \E b \in BOOLEAN : SetUseZoomToNode(b)
    \/ \E w \in Widths : SetWidth(w)
    \/ \E t \in GestureTransforms : Gesture(t)
    \/ scaleToHeight

SpecZoom == Init /\ [][NextZoom]_vars

\* Toggles apart from their transitions: every node of the first data set
\* is toggled open and closed between updates, among gestures and the two
\* properties that guard zoomToNode.
NextNodeZoom ==
    \/ \E t \in {1} : SetData(t)
    \/ passCount < MaxNodeZoomPass /\ \E refresh \in BOOLEAN : Update(refresh)
    \/ passCount < MaxNodeZoomPass /\ \E d \in AllNodes : toggleNode(d)
    \/ \E b \in BOOLEAN : SetUseZoom(b)
    \/ \E b \in BOOLEAN : SetUseZoomToNode(b)
    \/ \E t \in GestureTransforms : Gesture(t)

SpecNodeZoom == Init /\ [][NextNodeZoom]_vars

\* Resizing: changes of width and height among gestures, programmatic zooms
\* and the zoom switch, before the timers of the render passes run.
NextResize ==
    \/ \E t \in {1} : SetData(t)
    \/ passCount < MaxZoomPass /\ \E refresh \in BOOLEAN : Update(refresh)
    \/ passCount < MaxZoomPass /\ \E d \in AllNodes : toggleNode(d)
    \/ \E b \in BOOLEAN : SetUseZoom(b)
    \/ \E w \in Widths : SetWidth(w)
    \/ \E h \in Heights : SetHeight(h)
    \/ \E t \in GestureTransforms : Gesture(t)
    \/ scaleToHeight

SpecResize == Init /\ [][NextResize]_vars

\* The stats driver: the data set is replaced (by either tree, or by a root
\* alone), values are assigned in place, and the tree is rendered and toggled.
Values == {Num(1), Num(16), Undef}
Mutable == {2, 3}

NextStats ==
    \/ \E t \in DataSets \cup {RootOnly} : SetData(t)
    \/ \E n \in Mutable, v \in Values : MutateValue(n, v)
    \/ passCount < MaxStatPass /\ \E refresh \in BOOLEAN : Update(refresh)
    \/ passCount < MaxStatPass /\ \E d \in AllNodes : toggleNode(d)

SpecStats == Init /\ [][NextStats]_vars

\* The key driver: the key accessor is replaced between render passes.
NextKey ==
    \/ \E t \in DataSets : SetData(t)
    \/ \E accessor \in KeyAccessors : SetKey(accessor)
    \/ passCount < MaxKeyPass /\ \E refresh \in BOOLEAN : Update(refresh)
    \/ passCount < MaxKeyPass /\ \E d \in AllNodes : toggleNode(d)

SpecKey == Init /\ [][NextKey]_vars

\* The hover driver: the style table's entries are overridden, the tree is
\* rendered and toggled, and the pointer enters and leaves nodes.
StyleOverrides ==
    [n \in {"node-fill-opacity", "link-stroke-opacity", "font-size"} |->
        IF n = "node-fill-opacity" THEN Num(70)
        ELSE IF n = "link-stroke-opacity" THEN Num(50)
        ELSE Num(SubPx * 20)]

NextHover ==
    \/ \E t \in {1} : SetData(t)
    \/ \E n \in DOMAIN StyleOverrides : \E v \in {OwnEntry, StyleOverrides[n]} : SetStyle(n, v)
    \/ passCount < MaxHoverPass /\ \E refresh \in BOOLEAN : Update(refresh)
    \/ passCount < MaxHoverPass /\ \E d \in AllNodes : toggleNode(d)
    \/ \E d \in AllNodes : MouseOver(d)
    \/ \E d \in AllNodes : MouseOut(d)

SpecHover == Init /\ [][NextHover]_vars

\* ------------------------------------------------------- utility functions

\* util.size on margins whose sides are pixel counts and percentages (one
\* above 100, one negative, one that rounds at a half), and two box sizes.
MarginSides == {Abs(10), Pct(10), Pct(150), Pct(33), Pct(0 - 5)}
BoxSides == {500, 50}

SizeCalls ==
    {[fn |-> "size", margin |-> [top |-> t, bottom |-> b, left |-> l, right |-> r],
      width |-> w, height |-> h, done |-> FALSE, size |-> 0] :
        t \in MarginSides, b \in {Abs(10), Pct(33)}, l \in MarginSides, r \in {Pct(10), Pct(150)},
        w \in BoxSides, h \in BoxSides}

InitSize == Constructed /\ call \in SizeCalls

\* vizuly2.core.util.size(margin, width, height) runs.
CallSize ==
    /\ call.fn = "size" /\ ~call.done
    /\ call' = [call EXCEPT !.done = TRUE,
                             !.size = util_size(call.margin, call.width, call.height)]
    /\ UNCHANGED <<scope, flagVars, treeVars, elems, passVars, zoomVars, statVars, vz_tree_id,
                   styleVars>>

SpecSize == InitSize /\ [][CallSize]_vars

\* A node of a nest: a leaf record with its property, or a group with its
\* values; agg is the node's agg_<prop> field.
Leaf(v) == [leaf |-> TRUE, val |-> v, values |-> <<>>, agg |-> Undef]
Group(vs) == [leaf |-> FALSE, val |-> Undef, values |-> vs, agg |-> Undef]

\* The calculation argument: a sum, a difference, and the later operand.
Combines == {"sum", "difference", "last"}
calculation(c, a, b) == IF c = "sum" THEN a + b ELSE IF c = "difference" THEN a - b ELSE b

\* isNaN(x) ? 0 : x, for x a number or undefined
ZeroIfNaN(x) == IF IsNum(x) THEN x.v ELSE 0

\* The loop over node.values from child z on: the aggregate so far goes to 0
\* if it is not a number, then takes in the child's.
RECURSIVE aggregateGroup(_, _, _, _)
aggregateGroup(c, agg, kids, z) ==
    IF z > Len(kids) THEN agg
    ELSE aggregateGroup(c, Num(calculation(c, ZeroIfNaN(agg), kids[z].agg.v)), kids, z + 1)

\* aggregateNodes(nodes): the nodes of a list, each after its own values.
RECURSIVE aggregateNodes(_, _)
aggregateNode(c, node, kids) ==
    IF node.leaf THEN [node EXCEPT !.agg = Num(ZeroIfNaN(node.val))]
    ELSE [node EXCEPT !.values = kids, !.agg = aggregateGroup(c, node.agg, kids, 1)]

aggregateNodes(c, nodes) ==
    [y \in 1..Len(nodes) |-> aggregateNode(c, nodes[y], aggregateNodes(c, nodes[y].values))]

\* The nests: records 1..5 with property i or without a numeric one, grouped
\* as [1,2,3] and [4,5], the two groups at the top or under one parent.
LeafValues(i) == {Num(i), Undef}

AggCalls ==
    {[fn |-> "aggregateNest", combine |-> c, calls |-> 0,
      nest |-> IF deep
               THEN <<Group(<<Group(<<Leaf(a), Leaf(b), Leaf(d)>>), Group(<<Leaf(e), Leaf(f)>>)>>)>>
               ELSE <<Group(<<Leaf(a), Leaf(b), Leaf(d)>>), Group(<<Leaf(e), Leaf(f)>>)>>] :
        c \in Combines, deep \in BOOLEAN,
        a \in LeafValues(1), b \in LeafValues(2), d \in LeafValues(3),
        e \in LeafValues(4), f \in LeafValues(5)}

InitAgg == Constructed /\ call \in AggCalls

\* vizuly2.core.util.aggregateNest(nest, [prop], calculation) runs on the
\* nest, which keeps what an earlier call wrote into it.
CallAggregateNest ==
    /\ call.fn = "aggregateNest" /\ call.calls < MaxAggCalls
    /\ call' = [call EXCEPT !.calls = @ + 1, !.nest = aggregateNodes(call.combine, call.nest)]
    /\ UNCHANGED <<scope, flagVars, treeVars, elems, passVars, zoomVars, statVars, vz_tree_id,
                   styleVars>>

SpecAgg == InitAgg /\ [][CallAggregateNest]_vars

\* A string is a sequence of characters; these are the characters of the
\* arguments of createCSSKey.
Chars == {"a", " ", ",", "'", "\"", "(", ")", ".", "+"}
Strings == UNION {[1..n -> Chars] : n \in 0..MaxKeyLen}

\* String.prototype.replace(from, to) with a string pattern: the first
\* occurrence only.
replace_first(s, from, to) ==
    IF \E i \in 1..Len(s) : s[i] = from
    THEN [s EXCEPT ![CHOOSE i \in 1..Len(s) : s[i] = from /\ \A k \in 1..(i - 1) : s[k] # from] = to]
    ELSE s

\* The character class of /[\s+,'+,\.,\(,\),\']/g: white space, plus, comma,
\* single quote, dot and the two parentheses.
StrippedClass == {" ", "+", ",", "'", ".", "(", ")"}

\* s.replace(/[...]/g, '')
replace_class(s, class) == SelectSeq(s, LAMBDA ch : ch \notin class)

toUpperCase(s) == [i \in 1..Len(s) |-> IF s[i] = "a" THEN "A" ELSE s[i]]

\* vizuly2.core.util.createCSSKey
createCSSKey(s) ==
    <<"c", "s", "s">> \o toUpperCase(replace_class(replace_first(s, ",", "_"), StrippedClass))

KeyCalls == {[fn |-> "createCSSKey", s |-> s, done |-> FALSE, key |-> <<>>] : s \in Strings}

InitCSSKey == Constructed /\ call \in KeyCalls

CallCreateCSSKey ==
    /\ call.fn = "createCSSKey" /\ ~call.done
    /\ call' = [call EXCEPT !.done = TRUE, !.key = createCSSKey(call.s)]
    /\ UNCHANGED <<scope, flagVars, treeVars, elems, passVars, zoomVars, statVars, vz_tree_id,
                   styleVars>>

SpecCSSKey == InitCSSKey /\ [][CallCreateCSSKey]_vars

\* ------------------------------------------------------------------ claims

LayoutNodes == IF hieararchy = 0 THEN {} ELSE TreeNodes(hieararchy)
HasKids(n) == n \in LayoutNodes /\ TreeKids(hieararchy)[n] # <<>>
Settled == \A i \in AllNodes : elems[i].tr = <<>>
Alive(b) == \E i \in AllNodes : \E j \in DOMAIN elems[i].tr : elems[i].tr[j].b = b
RootAndKids == {Root} \cup Range(TreeKids(hieararchy)[Root])

\* C1: after an update() that found newly supplied data, every node below
\* the root that has children is collapsed, at every depth, and the nodes
\* laid out and kept rendered are exactly the root and its children.
C1_InitialCollapse ==
    (lastPass.kind = "update" /\ lastPass.collapsed) =>
        /\ \A n \in LayoutNodes \ {Root} :
              HasKids(n) => children[n] = "null" /\ _children[n] = "array"
        /\ ActiveNodes = RootAndKids
        /\ Rendered \ lastPass.exits = {Key(n) : n \in RootAndKids}

\* C1 witness: the second data set (a chain of depth 3) replaced the first,
\* whose other elements are exiting.
C1_Witness ==
    /\ lastPass.kind = "update" /\ lastPass.collapsed
    /\ hieararchy = 2
    /\ lastPass.exits # {}
    /\ _children[5] = "array"

\* C2 as stated: exactly one of children and _children is non-empty for
\* every LayoutNode, leaves included.
C2_Original ==
    \A n \in LayoutNodes : (children[n] = "array") # (_children[n] = "array")

\* C2 amended: exactly one of children and _children is non-empty for every
\* LayoutNode whose record has children; for a leaf both are empty.
C2_Amended ==
    \A n \in LayoutNodes :
        IF HasKids(n) THEN (children[n] = "array") # (_children[n] = "array")
        ELSE children[n] # "array" /\ _children[n] # "array"

\* C2 witness: a leaf was toggled while some node is collapsed and another
\* expanded.
C2_Witness ==
    /\ lastPass.kind = "toggle"
    /\ lastPass.node \in LayoutNodes /\ ~HasKids(lastPass.node)
    /\ _children[lastPass.node] = "null"
    /\ \E n \in LayoutNodes : _children[n] = "array"
    /\ \E n \in LayoutNodes : children[n] = "array"

\* The last pass toggled open the node the pass before it had toggled closed.
Reopens(lp) ==
    /\ lp.kind = "toggle" /\ ~lp.closing
    /\ lp.prev.kind = "toggle" /\ lp.prev.closing /\ lp.prev.node = lp.node

\* C3: collapsing an expanded node and expanding it again restores its
\* children and the active node set, every active node at the plotted
\* position it had before the collapse.
C3_RoundTrip ==
    [][(passCount' = passCount + 1 /\ Reopens(lastPass')) =>
          /\ ActiveKids(hieararchy, children')[lastPass.node] = lastPass.before.kids
          /\ Active(hieararchy, children') = lastPass.before.active
          /\ \A n \in lastPass.before.active :
                /\ pos'[n].x = lastPass.before.xy[n].x
                /\ pos'[n].y = lastPass.before.xy[n].y]_vars

\* C3 witness: an active node with children below the root was collapsed and
\* expanded again, and its children are laid out.
C3_Witness ==
    /\ Reopens(lastPass)
    /\ lastPass.node # Root /\ lastPass.node \in ActiveNodes
    /\ children[lastPass.node] = "array"
    /\ \E n \in ActiveNodes : HasParent(hieararchy, n) /\ ParentOf(hieararchy, n) = lastPass.node
    /\ \A n \in ActiveNodes : IsNum(pos[n].x) /\ IsNum(pos[n].y)

\* The step is a render pass of update() that rebuilt the layout tree.
RebuildStep ==
    passCount' = passCount + 1 /\ lastPass'.kind = "update" /\ lastPass'.rebuilt

\* C4 as stated: a pass that rebuilds the layout tree after the first
\* preserves the expand/collapse state of every node.
C4_Original ==
    [][(RebuildStep /\ hieararchy # 0) =>
          \A n \in TreeNodes(hieararchy) \cap TreeNodes(hieararchy') :
              /\ children[n] = "array" => children'[n] = "array"
              /\ _children[n] = "array" => _children'[n] = "array"]_vars

\* C4 amended: a pass that rebuilds the layout tree runs the collapse step
\* exactly when it found the data dirty, the first time or later, and then
\* leaves every node with children below the root collapsed under an
\* expanded root; a rebuild for update(true) alone leaves every node with
\* children expanded.
C4_Amended ==
    [][RebuildStep =>
          /\ lastPass'.collapsed = dataIsDirty
          /\ \A n \in TreeNodes(hieararchy') :
                TreeKids(hieararchy')[n] # <<>> =>
                    IF dataIsDirty /\ n # Root
                    THEN children'[n] = "null" /\ _children'[n] = "array"
                    ELSE children'[n] = "array" /\ _children'[n] = "undefined"]_vars

\* C4 witness: update(true) rebuilt a tree that an earlier pass had
\* collapsed, and every node with children is expanded.
C4_Witness ==
    /\ passCount >= 2
    /\ lastPass.kind = "update" /\ lastPass.rebuilt /\ ~lastPass.collapsed
    /\ \A n \in LayoutNodes : HasKids(n) => children[n] = "array"
    /\ \E n \in LayoutNodes \ {Root} : HasKids(n)

\* C5: node_refresh of a render pass is dispatched only once every
\* node-update transition the pass issued has ended.
C5_Latch ==
    \A b \in 1..passCount :
        /\ batchLog[b].pendingAtFire = 0
        /\ fired[b] > 0 =>
              /\ batchLog[b].ended = batchLog[b].issued
              /\ ~Alive(b)

\* C5 witness: a pass of several transitions dispatched node_refresh.
C5_Witness ==
    \E b \in 1..passCount : fired[b] = 1 /\ batchLog[b].issued >= 2

\* C6 as stated: every render pass eventually dispatches node_refresh, and
\* never more than once, when the timers of its transitions keep running.
C6_Original ==
    \A b \in 1..MaxPass :
        /\ [](passCount >= b => <>(passCount >= b /\ fired[b] = 1))
        /\ [](passCount >= b => fired[b] <= 1)

\* C7: once the transitions of the last render pass have settled, the
\* rendered elements are those of the active nodes.
C7_Converges ==
    (passCount >= 1 /\ ~Alive(passCount)) => Rendered = {Key(n) : n \in ActiveNodes}

\* C7 witness: a node was toggled open and closed again before any
\* transition of the opening pass ended, and all transitions have settled.
C7_Witness ==
    /\ Settled
    /\ passCount >= 2
    /\ lastPass.kind = "toggle" /\ lastPass.closing /\ lastPass.exits # {}
    /\ lastPass.prev = [kind |-> "toggle", node |-> lastPass.node, closing |-> FALSE]
    /\ batchLog[passCount - 1].ended = 0
    /\ fired[passCount] = 1

\* C8 as stated: a render pass asked for duration 0, as every pass of
\* toggleNode is, runs its transitions with duration 0.
C8_Original ==
    (lastPass.kind = "toggle" \/ lastPass.asked = Num(0)) => lastPass.duration = 0

\* C9: zoomToNode and resetZoom never invoke onZoom, and the listener is
\* registered whenever an operation has returned.
C9_Discipline ==
    /\ zoomListener = "onZoom"
    /\ "zoomToNode" \notin onZoomBy
    /\ "resetZoom" \notin onZoomBy

\* C9 witness: zoomToNode assigned the transform last, after a gesture had
\* invoked onZoom and with the scale the gesture left.
C9_Witness ==
    /\ lastAssign = "zoomToNode"
    /\ "gesture" \in onZoomBy
    /\ zoomT.k = Num(2 * Milli)

\* C10 as stated: scaleToHeight's transform assignment does not invoke
\* onZoom.
C10_Original == "scaleToHeight" \notin onZoomBy

\* C10 amended: scaleToHeight assigns its transform with the listener left
\* registered, so the assignment invokes onZoom.
C10_Amended ==
    lastAssign = "scaleToHeight" => ("scaleToHeight" \in onZoomBy /\ zoomListener = "onZoom")

\* C10 witness: scaleToHeight assigned a finite scale last.
C10_Witness ==
    lastAssign = "scaleToHeight" /\ IsNum(zoomT.k) /\ zoomT.k # Num(Milli)

\* The step changes the width or the height property.
SizeChange == scope'.width # scope.width \/ scope'.height # scope.height

\* C11 as stated: right after any change of width or height the zoom
\* transform is the identity.
C11_Original == [][SizeChange => zoomT' = Identity]_vars

\* C11 amended: a change of width or height made with useZoom on leaves the
\* zoom transform at the identity; made with useZoom off it leaves the zoom
\* transform as it was.
C11_Amended ==
    [][SizeChange => zoomT' = (IF scope.useZoom THEN Identity ELSE zoomT)]_vars

\* C11 witness: a size change reset the transform a gesture had set.
C11_Witness ==
    /\ lastAssign = "resetZoom"
    /\ "gesture" \in onZoomBy
    /\ (scope.width # 600 \/ scope.height # 600)
    /\ zoomT = Identity


\* A step that is a render pass (a call of updateNode).
PassStep == passCount' = passCount + 1

\* The depths of the nodes a render pass has drawn, the root aside.
DrawnDepths == {DepthOf(hieararchy, n) : n \in ActiveNodes \ {Root}}

\* C12: the depth stats nodeRadius reads in a render pass are the stats of
\* the tree the pass renders, with the values the records have then.
C12_Original ==
    [][PassStep =>
         \A d \in DrawnDepths' :
            /\ minValues'[d] = FreshStats(hieararchy', recValue', "min", d)
            /\ maxValues'[d] = FreshStats(hieararchy', recValue', "max", d)]_vars

\* A step of viz.update().
UpdateStep == \E refresh \in BOOLEAN : Update(refresh)

\* A step of viz.update() that runs to its end: it is a render pass for the
\* data root.
UpdateDone == passCount' = passCount + 1 /\ lastPass'.kind = "update"

\* The values of the nodes of tree h at depth d that are in the set `among`.
ValuesAt(h, d, among) == {recValue[n] : n \in NodesAt(h, d) \cap among}

\* C13 as stated: after every update() the entry of each depth d >= 1 is the
\* minimum and maximum of the value over the nodes at depth d that are not
\* collapsed away, and min <= max where both are numbers.
C13_Original ==
    [][UpdateDone =>
         \A d \in Depths :
            /\ minValues'[d] = d3_min(ValuesAt(hieararchy', d, Active(hieararchy', children')))
            /\ maxValues'[d] = d3_max(ValuesAt(hieararchy', d, Active(hieararchy', children')))]_vars

\* C13 amended: after every update() that renders, the entry of each depth
\* 1..maxDepth is the minimum and maximum of the value over all the nodes of
\* the tree at that depth, collapsed or not (the root is at no such depth),
\* min <= max where both are numbers, and a deeper entry is what it was.
C13_Amended ==
    [][UpdateDone =>
         \A d \in Depths :
            IF d <= maxDepth'
            THEN /\ minValues'[d] = d3_min(ValuesAt(hieararchy', d, AllNodes))
                 /\ maxValues'[d] = d3_max(ValuesAt(hieararchy', d, AllNodes))
                 /\ (IsNum(minValues'[d]) /\ IsNum(maxValues'[d])
                        => minValues'[d].v <= maxValues'[d].v)
            ELSE minValues'[d] = minValues[d] /\ maxValues'[d] = maxValues[d]]_vars

\* An update() has rendered the shallower tree after the deeper one: the
\* nodes at depth 2 are collapsed away and have their entry, and the entry of
\* depth 3 is left from the deeper tree.
C13_Witness ==
    /\ lastPass.kind = "update"
    /\ hieararchy = 1
    /\ maxDepth = 2
    /\ NodesAt(1, 2) \cap ActiveNodes = {}
    /\ IsNum(minValues[2]) /\ minValues[2].v < maxValues[2].v
    /\ IsNum(maxValues[3])

\* C14: update() on a root without children raises nothing and leaves no
\* entry in the depth stats.
C14_Original ==
    [][(scope.data = RootOnly /\ UpdateStep) =>
         /\ raised' = "none"
         /\ \A d \in Depths : minValues'[d] = Undef /\ maxValues'[d] = Undef]_vars

\* The radius nodeRadius gives node n in a render pass, with the d3 loaded
\* behaving as `mode` on a domain of one point.
Radius(n, mode) ==
    nodeRadius(DepthOf(hieararchy, n), recValue[n], minValues, maxValues, nodeSize, mode)

\* C15: in every render pass no radius is NaN or negative, the radius grows
\* with the value within a depth, and the root's radius is half of the
\* scale's maximum, whichever d3 is loaded.
C15_Original ==
    [][PassStep =>
         \A mode \in D3Degenerate :
            /\ \A n \in ActiveNodes' : IsNum(Radius(n, mode)') /\ Radius(n, mode)'.v >= 0
            /\ \A a, b \in ActiveNodes' \ {Root} :
                  (/\ DepthOf(hieararchy', a) = DepthOf(hieararchy', b)
                   /\ IsNum(recValue'[a]) /\ IsNum(recValue'[b])
                   /\ recValue'[a].v <= recValue'[b].v)
                  => Radius(a, mode)'.v <= Radius(b, mode)'.v
            /\ Radius(Root, mode)' = Num((nodeSize' \div 2) \div 2)]_vars

\* C16: a vz_tree_id that a record has been assigned is never assigned anew
\* with a different value.
C16_Original ==
    [][\A n \in AllNodes : vz_tree_id[n] # Undef => vz_tree_id'[n] = vz_tree_id[n]]_vars

\* C17: after a mouseover and the mouseout that follows it, the fill opacity
\* of every circle, the stroke opacity of every link, and the size and weight
\* of every label are what the style table gives for them: the weight, for
\* which the table has no entry, is as it was before the pointer came.
C17_Original ==
    [][(\E d \in AllNodes : MouseOut(d)) =>
         \A n \in Rendered :
            /\ look'[n].fillOpacity = getStyle("node-fill-opacity", styles, fontSize)
            /\ n # Root => look'[n].strokeOpacity = getStyle("link-stroke-opacity", styles, fontSize)
            /\ look'[n].fontSize = getStyle("font-size", styles, fontSize)
            /\ look'[n].fontWeight = "unset"]_vars

BoxMax == SetMax(BoxSides)

\* The integer nearest to num / den, the upper one of two at equal distance.
Nearest(num, den) ==
    CHOOSE k \in (0 - 2 * BoxMax)..(2 * BoxMax) :
        2 * den * k - den <= 2 * num /\ 2 * num < 2 * den * k + den

\* A margin side as the sentence resolves it against its base.
SideOf(m, base) == IF m.pct THEN Nearest(base * (IF m.v < 100 THEN m.v ELSE 100), 100) ELSE m.v

\* C18: util.size resolves a percentage side to the nearest integer to
\* base * min(pct, 100) / 100, base being the width for left and right and
\* the height for top and bottom, and any other side to its number; the
\* width and height it returns are what the sides leave of the box.
C18_Size ==
    (call.fn = "size" /\ call.done) =>
        /\ call.size.left = SideOf(call.margin.left, call.width)
        /\ call.size.right = SideOf(call.margin.right, call.width)
        /\ call.size.top = SideOf(call.margin.top, call.height)
        /\ call.size.bottom = SideOf(call.margin.bottom, call.height)
        /\ call.size.width = call.width - call.size.left - call.size.right
        /\ call.size.height = call.height - call.size.top - call.size.bottom
        /\ (/\ call.margin = [top |-> Abs(10), bottom |-> Abs(10),
                               left |-> Pct(10), right |-> Pct(10)]
            /\ call.width = 500 /\ call.height = 500)
           => call.size = [width |-> 400, height |-> 480, left |-> 50, top |-> 10,
                           right |-> 50, bottom |-> 10]

\* The call of the example has run.
C18_Witness ==
    /\ call.fn = "size" /\ call.done
    /\ call.margin = [top |-> Abs(10), bottom |-> Abs(10), left |-> Pct(10), right |-> Pct(10)]
    /\ call.width = 500 /\ call.height = 500
    /\ call.size.width = 400 /\ call.size.height = 480

\* The left-to-right fold of the calculation over the aggregates of a list
\* of nodes, from `seed`.
FoldLeft(c, seed, kids) ==
    LET f[i \in 0..Len(kids)] ==
            IF i = 0 THEN seed ELSE calculation(c, f[i - 1], kids[i].agg.v)
    IN  f[Len(kids)]

\* The nodes of a nest, at every level.
RECURSIVE NestNodes(_)
NestNodes(nodes) ==
    UNION {{nodes[y]} \cup NestNodes(nodes[y].values) : y \in 1..Len(nodes)}

\* C19: once aggregateNest has run, every leaf's aggregate is the number its
\* property holds, or 0 when it holds none, and every group's aggregate is
\* the left-to-right fold of the calculation over its children's aggregates
\* from 0; values [1,2,3] and [4,5] under a sum give 6 and 9, and 15 above.
C19_Original ==
    (call.fn = "aggregateNest" /\ call.calls >= 1) =>
        /\ \A node \in NestNodes(call.nest) :
              IF node.leaf
              THEN node.agg = (IF IsNum(node.val) THEN node.val ELSE Num(0))
              ELSE node.agg = Num(FoldLeft(call.combine, 0, node.values))
        /\ (/\ call.combine = "sum"
            /\ Len(call.nest) = 1
            /\ \A i \in 1..3 : call.nest[1].values[1].values[i].val = Num(i)
            /\ \A i \in 1..2 : call.nest[1].values[2].values[i].val = Num(3 + i))
           => /\ call.nest[1].values[1].agg = Num(6)
              /\ call.nest[1].values[2].agg = Num(9)
              /\ call.nest[1].agg = Num(15)

\* White space, comma, the two quotes and the two parentheses.
Unwanted == {" ", ",", "'", "\"", "(", ")"}

\* C20: the key is the prefix followed by the argument in upper case
\* without its white space, commas, quotes and parentheses, so that none of
\* these is in the key and nothing is in it that the argument did not hold.
C20_Original ==
    (call.fn = "createCSSKey" /\ call.done) =>
        /\ call.key = <<"c", "s", "s">> \o toUpperCase(replace_class(call.s, Unwanted))
        /\ \A i \in 1..Len(call.key) : call.key[i] \notin Unwanted

\* The step is a render pass started by toggleNode.
ToggleStep == passCount' = passCount + 1 /\ lastPass'.kind = "toggle"

\* The nodes strictly below n in the layout tree.
Below(n) == Descendants(TreeKids(hieararchy), n) \ {n}

\* C21: toggleNode(d) changes the children and _children of d alone: every
\* other node, the descendants of d included, keeps both fields, so that
\* re-expanding d shows again each subtree below d that was expanded when d
\* was closed.
C21_Frame ==
    [][ToggleStep =>
          /\ \A n \in AllNodes \ {lastPass'.node} :
                children'[n] = children[n] /\ _children'[n] = _children[n]
          /\ Reopens(lastPass') =>
                Below(lastPass'.node) \cap Active(hieararchy, children')
                   = Below(lastPass'.node) \cap lastPass.before.active]_vars

\* C21 witness: a node was closed and re-expanded while a child of it was
\* expanded, and that child's own children are laid out again.
C21_Witness ==
    /\ Reopens(lastPass)
    /\ \E c \in Below(lastPass.node) \cap ActiveNodes :
          /\ children[c] = "array"
          /\ \E g \in Below(c) : g \in ActiveNodes /\ IsNum(pos[g].x)

\* C22: whenever no transition is scheduled or running, every active node
\* has x0 = x and y0 = y, the positions the last render pass stashed,
\* however the toggleNode calls interleave with the starts of the exit
\* transitions.
C22_Original ==
    (passCount > 0 /\ raised = "none" /\ Settled) =>
        \A n \in ActiveNodes : pos[n].x0 = pos[n].x /\ pos[n].y0 = pos[n].y

\* C23: in every render pass that has exiting nodes, started by toggleNode
\* or by update(), the target of the exit transitions is a defined
\* coordinate pair, the laid-out position of the node that started the pass:
\* the toggled node, or the root for update().
C23_Original ==
    lastPass.exits # {} =>
        /\ IsNum(lastPass.targetX) /\ IsNum(lastPass.targetY)
        /\ \E n \in {IF lastPass.kind = "toggle" THEN lastPass.node ELSE Root} :
              lastPass.targetX = pos[n].x /\ lastPass.targetY = pos[n].y

\* The transform zoomToNode assigns for a node at position p: the scale kept,
\* the node moved to a quarter of the width and half of the height.
NodeTransform(p) ==
    [k |-> zoomT.k,
     x |-> NegTimesPlus(p.y, zoomT.k, (SubPx * size.width) \div 4),
     y |-> NegTimesPlus(p.x, zoomT.k, (SubPx * size.height) \div 2)]

\* The node a toggle of d zooms to: d when the toggle opened it on children,
\* its parent when the toggle closed it, no node (0) otherwise.
ZoomTarget(d, closing) ==
    IF closing
    THEN IF HasParent(hieararchy, d) THEN ParentOf(hieararchy, d) ELSE 0
    ELSE IF children'[d] = "array" THEN d ELSE 0

\* C24: with useZoom and useZoomToNode on, a toggle that opens a node zooms
\* to that node at its position after the render pass, a toggle that closes
\* a node zooms to its parent, and a toggle that closes the root or toggles
\* a node without children assigns no transform.
C24_ZoomToNode ==
    [][(ToggleStep /\ scope.useZoom /\ scope.useZoomToNode) =>
          \E tgt \in {ZoomTarget(lastPass'.node, lastPass'.closing)} :
             IF tgt = 0
             THEN zoomT' = zoomT /\ lastAssign' = lastAssign /\ onZoomBy' = onZoomBy
             ELSE zoomT' = NodeTransform(pos'[tgt]) /\ lastAssign' = "zoomToNode"]_vars

\* C24 witness: after a gesture left the scale at 2, a node below the root
\* was opened and closed again, and the transform is the one that zooms to
\* its parent, the root.
C24_Witness ==
    /\ scope.useZoom /\ scope.useZoomToNode
    /\ lastPass.kind = "toggle" /\ lastPass.closing /\ lastPass.node # Root
    /\ lastPass.prev.kind = "toggle" /\ ~lastPass.prev.closing
    /\ lastAssign = "zoomToNode"
    /\ zoomT.k = Num(2 * Milli)
    /\ zoomT = NodeTransform(pos[Root])

\* C25: every update() that returns leaves dataIsDirty and refreshNeeded
\* false; it rebuilds the layout tree exactly when a data change or an
\* update(true) request has occurred since the previous rebuild; and a data
\* change is never lost: it is on record until an update() rebuilds the
\* tree from the data then set.
C25_Flags ==
    /\ [][\A refresh \in BOOLEAN :
             (UpdateDone /\ Update(refresh)) =>
                /\ ~dataIsDirty' /\ ~refreshNeeded'
                /\ lastPass'.rebuilt <=> (dataIsDirty \/ refreshNeeded \/ refresh)
                /\ lastPass'.rebuilt => hieararchy' = scope.data]_vars
    /\ [][(\E t \in DataSets \cup {RootOnly} : SetData(t)) => dataIsDirty']_vars
    /\ [][(dataIsDirty /\ ~dataIsDirty') =>
             (UpdateDone /\ lastPass'.rebuilt /\ hieararchy' = scope.data)]_vars

\* C25 witness: an update(true) rebuilt the tree of data already rendered (no
\* data change, so nothing was collapsed), and both flags are false.
C25_Witness ==
    /\ passCount > 1
    /\ lastPass.kind = "update" /\ lastPass.rebuilt /\ ~lastPass.collapsed
    /\ lastPass.prev.kind = "update"
    /\ ~dataIsDirty /\ ~refreshNeeded

\* The aggregates of a nest, node by node: each node's agg_<prop> followed by
\* those of its values.
RECURSIVE Aggregates(_)
Aggregates(nodes) ==
    [y \in 1..Len(nodes) |-> <<nodes[y].agg, Aggregates(nodes[y].values)>>]

\* C26: aggregateNest is idempotent on its aggregates: a second call on the
\* same nest, with the same property and calculation, leaves every
\* agg_<prop> at the value the first call gave it.
C26_Original ==
    [][(call.fn = "aggregateNest" /\ call.calls >= 1 /\ call'.calls = call.calls + 1) =>
          Aggregates(call'.nest) = Aggregates(call.nest)]_vars

\* An update() with no refresh request, called in this state, rebuilds the
\* layout tree.
UpdateRebuilds == dataIsDirty \/ refreshNeeded

\* The elements whose datum is a node of the current layout tree.
Current == {i \in AllNodes : elems[i].in /\ ~elems[i].stale}

\* The step keeps the expand/collapse state of every node and the nodes of
\* the layout tree themselves.
KeepsTree ==
    /\ children' = children /\ _children' = _children
    /\ hieararchy' = hieararchy
    /\ Current \subseteq Current'

\* C27 as stated: an update() with no refresh request and no data change
\* since the previous render pass keeps the expand/collapse state and the
\* layout nodes: in the state a render pass leaves, whether update() or
\* toggleNode started it, such an update() does not rebuild the tree.
C27_Original == [][PassStep => ~UpdateRebuilds']_vars

\* C27 amended: an update() with no refresh request and no data change
\* since the previous update() keeps the expand/collapse state and the
\* layout nodes; a data change made before a toggleNode pass is still
\* pending after it, and the next update() rebuilds the tree from the new
\* data with the nodes below the root collapsed.
C27_Amended ==
    [][(UpdateDone /\ Update(FALSE)) =>
          IF UpdateRebuilds
          THEN lastPass'.rebuilt /\ (dataIsDirty => lastPass'.collapsed /\ hieararchy' = scope.data)
          ELSE KeepsTree /\ ~lastPass'.rebuilt]_vars

\* C27 witness: an update() that did not rebuild followed a toggle that had
\* opened a node below the root, and that node is still expanded on nodes
\* its elements are bound to.
C27_Witness ==
    /\ lastPass.kind = "update" /\ ~lastPass.rebuilt
    /\ lastPass.prev.kind = "toggle" /\ ~lastPass.prev.closing /\ lastPass.prev.node # Root
    /\ children[lastPass.prev.node] = "array"
    /\ ActiveNodes \subseteq Current

\* C28: in every reachable state no node of the layout tree has both
\* children and _children set: collapsing moves children to _children,
\* expanding moves them back, whatever the sequence of update(),
\* update(true), data changes and toggleNode calls.
C28_Exclusive ==
    \A n \in LayoutNodes : ~(children[n] = "array" /\ _children[n] = "array")

\* C28 witness: after a data change collapsed the nodes below the root, a
\* toggle expanded one of them while another stays collapsed.
C28_Witness ==
    /\ lastPass.kind = "toggle" /\ ~lastPass.closing /\ lastPass.node # Root
    /\ children[lastPass.node] = "array" /\ _children[lastPass.node] = "null"
    /\ \E n \in LayoutNodes : children[n] = "null" /\ _children[n] = "array"
====
